---------------------------- MODULE Spec2Model ----------------------------
(***************************************************************************)
(* Petrainer shock-collar driver (ShockCollar.cpp / ShockCollar.h).        *)
(*                                                                         *)
(*   ShockCollar        packet(), sendpulse(), send(), command(),          *)
(*                      keepalive(): the transmitter                       *)
(*   ShockCollarRemote  begin(), receive(): the receiver                   *)
(*                                                                         *)
(* char and unsigned char values are kept as their 8-bit pattern 0..255,   *)
(* 32-bit unsigned long values (micros(), millis(), pt, st, et) as a pair  *)
(* <<high 16 bits, low 16 bits>>, so that every subtraction wraps at 2^32  *)
(* exactly as the code's does.                                             *)
(***************************************************************************)
EXTENDS Integers, Sequences, FiniteSets, TLC

VARIABLES
    \* ---- ShockCollar (transmitter object) ----
    key,            \* collar_key key
    kchan,          \* char kchan: keepalive channel(s)
    interrupt,      \* int (*interrupt)(void): TRUE when a poll function is set
    lastkeepalive,  \* unsigned long lastkeepalive
    line,           \* level last written to collar_pin
    ms,             \* millis() clock, 32 bit
    \* ---- caller's buffer and results of the calls ----
    buf,            \* a collar_pkt owned by the caller of packet()/send()
    p_ret,          \* last return value of packet()
    ret,            \* last return value of command()
    \* ---- control: position of the (single) transmitter thread ----
    pc,             \* "idle" or the position inside command()/send()
    caller,         \* who called command(): "user" or "keepalive"
    s_ret,          \* where send() returns to
    \* ---- command() locals ----
    c_cmd, c_chan, c_pwr, durn, cmd_t, pkt1, pkt2,
    \* ---- send() locals ----
    s_pkt, s_bit,
    clk,            \* long clk: the deadline of the next pulse
    \* ---- the build and the scheduling of the transmitter ----
    uint_bits,      \* width of unsigned int, the type delayMicroseconds takes
    lags,           \* delays the scheduler may still inject
    \* ---- observation of the transmitter ----
    clk0,           \* micros() as read when send() started its bit clock
    wave,           \* on-times of the pulses of the current send(), in order
    pulse,          \* the last sendpulse(): clock read, deadline, wait, edges
    sent,           \* channels' frames handed to send() in this command()
    npulse,         \* on-pulses emitted since the last call from the user
    polled,         \* the output as it was at the last interrupt() poll
    el,             \* milliseconds really elapsed since command() was entered
    obs,            \* el and frames sent at the last budget check of command()
    ncalls,         \* calls made by the user so far
    args,           \* the last call made by the user and its arguments
    \* ---- codec exercise (packet -> corrupt -> decode) ----
    origin,         \* how buf got its contents
    dec,            \* result of decoding buf as the receiver would
    \* ---- ShockCollarRemote (receiver object) ----
    pkt,            \* collar_pkt pkt: frame being assembled
    bit,            \* char bit: bit counter
    pt, st, et,     \* unsigned long: pulse start, packet start, packet end
    state,          \* char state: last pin state
    expect_key,     \* collar_key expect_key
    r_key, r_chan, r_command, r_power,  \* key, chan, command, power
    rx_ret,         \* last return value of receive()
    \* ---- the wire feeding the receiver ----
    pin,            \* level of remote_pin
    now,            \* micros() clock, 32 bit
    w_frame,        \* frame on the wire
    w_idx,          \* its next pulse: 0 start, 1..40 data, 41 extra, 42 none
    w_tuple,        \* what the frame was built from
    w_kind,         \* "valid": as packet() made it; "flip": one bit flipped;
                    \* "link": sent by command(); "none": nothing yet
    w_gap,          \* time from the last edge to the next rising edge
    w_snap,         \* the receiver's stored result when the frame began
    w_adj,          \* microseconds the frame's 40 bits take beyond nominal
    w_lost,         \* the data pulse (1..40) that arrives as noise, or 0
    heard,          \* bit values on the wire since the last start pulse
    nframes,        \* frames put on the wire so far
    accepted        \* frames the receiver has accepted so far

txvars == <<key, kchan, interrupt, lastkeepalive, line, ms, buf, p_ret, ret,
            pc, caller, s_ret, c_cmd, c_chan, c_pwr, durn, cmd_t, pkt1, pkt2,
            s_pkt, s_bit, sent, npulse, polled, el, obs, ncalls, args,
            clk, uint_bits, lags, clk0, wave, pulse>>
(* what only send() and sendpulse() change *)
sendvars == <<clk, uint_bits, lags, clk0, wave, pulse>>
codecvars == <<origin, dec>>
rxvars == <<pkt, bit, pt, st, et, state, expect_key, r_key, r_chan,
            r_command, r_power, rx_ret, pin, now, w_frame, w_idx, w_tuple,
            w_kind, w_gap, w_snap, w_adj, w_lost, heard, nframes, accepted>>
(* the receiver and the wire, micros() apart *)
rxrest == <<pkt, bit, pt, st, et, state, expect_key, r_key, r_chan,
            r_command, r_power, rx_ret, pin, w_frame, w_idx, w_tuple,
            w_kind, w_gap, w_snap, w_adj, w_lost, heard, nframes, accepted>>
vars == <<txvars, codecvars, rxvars>>

---------------------------------------------------------------------------
(* enum collar_cmd *)
COLLAR_NONE == 0
COLLAR_LED  == 1
COLLAR_BEEP == 2
COLLAR_VIB  == 3
COLLAR_ZAP  == 4

(* #define COLLAR_KEEPALIVE 120000 *)
COLLAR_KEEPALIVE == 120000

---------------------------------------------------------------------------
(* Bit operations on 8-bit values.                                         *)
Bit(x, i) == (x \div (2 ^ i)) % 2

Or8(a, b) ==
    LET o(i) == IF Bit(a, i) = 1 \/ Bit(b, i) = 1 THEN 2 ^ i ELSE 0
    IN  o(0) + o(1) + o(2) + o(3) + o(4) + o(5) + o(6) + o(7)

And8(a, b) ==
    LET o(i) == IF Bit(a, i) = 1 /\ Bit(b, i) = 1 THEN 2 ^ i ELSE 0
    IN  o(0) + o(1) + o(2) + o(3) + o(4) + o(5) + o(6) + o(7)

Xor8(a, b) ==
    LET o(i) == IF Bit(a, i) # Bit(b, i) THEN 2 ^ i ELSE 0
    IN  o(0) + o(1) + o(2) + o(3) + o(4) + o(5) + o(6) + o(7)

(* typedef unsigned char collar_pkt[5] *)
ZeroPkt == [i \in 0..4 |-> 0]
MkPkt(b0, b1, b2, b3, b4) ==
    [i \in 0..4 |-> CASE i = 0 -> b0 [] i = 1 -> b1 [] i = 2 -> b2
                      [] i = 3 -> b3 [] OTHER -> b4]

---------------------------------------------------------------------------
(* 32-bit unsigned long arithmetic on <<high, low>> halves.                *)
W16 == 2 ^ 16

U32(n) == <<n \div W16, n % W16>>      \* 0 <= n < 2^31
Add32(a, b) ==
    LET lo == a[2] + b[2]
    IN  <<(a[1] + b[1] + (lo \div W16)) % W16, lo % W16>>
Sub32(a, b) ==
    LET lo == a[2] - b[2]
    IN  <<(a[1] - b[1] - (IF lo < 0 THEN 1 ELSE 0)) % W16, lo % W16>>
(* the conversion unsigned long -> long (two's complement) *)
ToLong(a) ==
    IF a[1] >= 32768 THEN (a[1] - W16) * W16 + a[2] ELSE a[1] * W16 + a[2]
(* unsigned comparison a >= n and a < n, for 0 <= n < 2^31 *)
GeU32(a, n) == a[1] >= 32768 \/ a[1] * W16 + a[2] >= n
LtU32(a, n) == ~GeU32(a, n)

---------------------------------------------------------------------------
(* a packet() that writes the key low byte first *)
PacketKeySwapped(p, k, chan, cmd, pwr) ==
    LET p0 == [p EXCEPT ![0] = 0]
        ht == CASE chan = 1 -> <<\b10000000, \b00001110>>
                [] chan = 2 -> <<\b11110000, \b00000000>>
                [] OTHER    -> <<>>
        mm == CASE cmd = COLLAR_LED  -> <<\b00001000, \b11100000>>
                [] cmd = COLLAR_BEEP -> <<\b00000100, \b11010000>>
                [] cmd = COLLAR_VIB  -> <<\b00000010, \b10110000>>
                [] cmd = COLLAR_ZAP  -> <<\b00000001, \b01110000>>
                [] OTHER             -> <<>>
    IN  IF ht = <<>> \/ mm = <<>> THEN [ret |-> 0, pkt |-> p0]
        ELSE [ret |-> 1,
              pkt |-> MkPkt(Or8(ht[1], mm[1]), k % 256, (k \div 256) % 256,
                            pwr % 256, Or8(ht[2], mm[2]))]

(* a packet() that leaves byte 0 as it found it on failure *)
PacketNoSentinel(p, k, chan, cmd, pwr) ==
    LET ht == CASE chan = 1 -> <<\b10000000, \b00001110>>
                [] chan = 2 -> <<\b11110000, \b00000000>>
                [] OTHER    -> <<>>
        mm == CASE cmd = COLLAR_LED  -> <<\b00001000, \b11100000>>
                [] cmd = COLLAR_BEEP -> <<\b00000100, \b11010000>>
                [] cmd = COLLAR_VIB  -> <<\b00000010, \b10110000>>
                [] cmd = COLLAR_ZAP  -> <<\b00000001, \b01110000>>
                [] OTHER             -> <<>>
    IN  IF ht = <<>> \/ mm = <<>> THEN [ret |-> 0, pkt |-> p]
        ELSE [ret |-> 1,
              pkt |-> MkPkt(Or8(ht[1], mm[1]), (k \div 256) % 256, k % 256,
                            pwr % 256, Or8(ht[2], mm[2]))]

(* a packet() whose channel 1 trailer nibble is 0000 *)
PacketChanXZero(p, k, chan, cmd, pwr) ==
    LET p0 == [p EXCEPT ![0] = 0]
        ht == CASE chan = 1 -> <<\b10000000, \b00000000>>
                [] chan = 2 -> <<\b11110000, \b00000000>>
                [] OTHER    -> <<>>
        mm == CASE cmd = COLLAR_LED  -> <<\b00001000, \b11100000>>
                [] cmd = COLLAR_BEEP -> <<\b00000100, \b11010000>>
                [] cmd = COLLAR_VIB  -> <<\b00000010, \b10110000>>
                [] cmd = COLLAR_ZAP  -> <<\b00000001, \b01110000>>
                [] OTHER             -> <<>>
    IN  IF ht = <<>> \/ mm = <<>> THEN [ret |-> 0, pkt |-> p0]
        ELSE [ret |-> 1,
              pkt |-> MkPkt(Or8(ht[1], mm[1]), (k \div 256) % 256, k % 256,
                            pwr % 256, Or8(ht[2], mm[2]))]

(* int ShockCollar::packet(collar_pkt &pkt, collar_key key, char chan,     *)
(*                         collar_cmd cmd, char pwr)                       *)
(* The result is the return value and the buffer as the call leaves it.    *)
packet(p, k, chan, cmd, pwr) ==
    LET p0 == [p EXCEPT ![0] = 0]                       \* pkt[0] = 0;
        \* switch(chan): h, t for lead-in, channel, ChanX
        ht == CASE chan = 1 -> <<\b10000000, \b00001110>>
                [] chan = 2 -> <<\b11110000, \b00000000>>
                [] OTHER    -> <<>>                     \* default: return 0
        \* switch(cmd): Mode and ModeX
        mm == CASE cmd = COLLAR_LED  -> <<\b00001000, \b11100000>>
                [] cmd = COLLAR_BEEP -> <<\b00000100, \b11010000>>
                [] cmd = COLLAR_VIB  -> <<\b00000010, \b10110000>>
                [] cmd = COLLAR_ZAP  -> <<\b00000001, \b01110000>>
                [] OTHER             -> <<>>            \* default: return 0
    IN  IF ht = <<>> \/ mm = <<>> THEN [ret |-> 0, pkt |-> p0]
        ELSE [ret |-> 1,
              pkt |-> MkPkt(Or8(ht[1], mm[1]),          \* pkt[0] = h
                            (k \div 256) % 256,         \* pkt[1] = key >> 8
                            k % 256,                    \* pkt[2] = key
                            pwr % 256,                  \* pkt[3] = pwr
                            Or8(ht[2], mm[2]))]         \* pkt[4] = t

---------------------------------------------------------------------------
(* the result of a frame that is dropped *)
Reject == [ok |-> FALSE, k |-> 0, c |-> 0, cmd |-> 0, p |-> 0]

(* a decoder that does not compare mode with its complement *)
DecodeNoModeX(p, ek) ==
    LET c  == p[0] \div 16
        m  == And8(p[0], 15)
        k  == p[1] * 256 + p[2]
        pw == p[3]
        cx == And8(p[4], 15)
        ch == CASE c = \b1000 /\ cx = \b1110 -> 1
                [] c = \b1111 /\ cx = \b0000 -> 2
                [] OTHER -> 0
        cmd == CASE m = \b1000 -> COLLAR_LED
                 [] m = \b0100 -> COLLAR_BEEP
                 [] m = \b0010 -> COLLAR_VIB
                 [] m = \b0001 -> COLLAR_ZAP
                 [] OTHER -> COLLAR_NONE
    IN  IF ek # 0 /\ k # ek THEN Reject
        ELSE IF ch = 0 THEN Reject
        ELSE IF cmd = COLLAR_NONE THEN Reject
        ELSE [ok |-> TRUE, k |-> k, c |-> ch, cmd |-> cmd, p |-> pw]

(* a decoder that does not look at the channel bits of byte 4 *)
DecodeNoChanX(p, ek) ==
    LET c  == p[0] \div 16
        m  == And8(p[0], 15)
        k  == p[1] * 256 + p[2]
        pw == p[3]
        mx == p[4] \div 16
        ch == CASE c = \b1000 -> 1
                [] c = \b1111 -> 2
                [] OTHER -> 0
        cmd == CASE m = \b1000 /\ mx = \b1110 -> COLLAR_LED
                 [] m = \b0100 /\ mx = \b1101 -> COLLAR_BEEP
                 [] m = \b0010 /\ mx = \b1011 -> COLLAR_VIB
                 [] m = \b0001 /\ mx = \b0111 -> COLLAR_ZAP
                 [] OTHER -> COLLAR_NONE
    IN  IF ek # 0 /\ k # ek THEN Reject
        ELSE IF ch = 0 THEN Reject
        ELSE IF cmd = COLLAR_NONE THEN Reject
        ELSE [ok |-> TRUE, k |-> k, c |-> ch, cmd |-> cmd, p |-> pw]

(* a decoder that never compares the key *)
DecodeNoKeyCheck(p, ek) ==
    LET c  == p[0] \div 16
        m  == And8(p[0], 15)
        k  == p[1] * 256 + p[2]
        pw == p[3]
        mx == p[4] \div 16
        cx == And8(p[4], 15)
        ch == CASE c = \b1000 /\ cx = \b1110 -> 1
                [] c = \b1111 /\ cx = \b0000 -> 2
                [] OTHER -> 0
        cmd == CASE m = \b1000 /\ mx = \b1110 -> COLLAR_LED
                 [] m = \b0100 /\ mx = \b1101 -> COLLAR_BEEP
                 [] m = \b0010 /\ mx = \b1011 -> COLLAR_VIB
                 [] m = \b0001 /\ mx = \b0111 -> COLLAR_ZAP
                 [] OTHER -> COLLAR_NONE
    IN  IF ch = 0 THEN Reject
        ELSE IF cmd = COLLAR_NONE THEN Reject
        ELSE [ok |-> TRUE, k |-> k, c |-> ch, cmd |-> cmd, p |-> pw]

(* ShockCollarRemote::receive(), lines 276-299: field extraction and       *)
(* validation of a complete 40-bit buffer.  ok = FALSE is "return 0".      *)
Decode(p, ek) ==
    LET c  == p[0] \div 16                  \* c  = pkt[0] >> 4
        m  == And8(p[0], 15)                \* m  = pkt[0] & 0xf
        k  == p[1] * 256 + p[2]             \* k  = (pkt[1] << 8) | pkt[2]
        pw == p[3]                          \* p  = pkt[3]
        mx == p[4] \div 16                  \* mx = pkt[4] >> 4
        cx == And8(p[4], 15)                \* cx = pkt[4] & 0x0f
        ch == CASE c = \b1000 /\ cx = \b1110 -> 1
                [] c = \b1111 /\ cx = \b0000 -> 2
                [] OTHER -> 0
        cmd == CASE m = \b1000 /\ mx = \b1110 -> COLLAR_LED
                 [] m = \b0100 /\ mx = \b1101 -> COLLAR_BEEP
                 [] m = \b0010 /\ mx = \b1011 -> COLLAR_VIB
                 [] m = \b0001 /\ mx = \b0111 -> COLLAR_ZAP
                 [] OTHER -> COLLAR_NONE
    IN  IF ek # 0 /\ k # ek THEN Reject     \* if(expect_key && k != expect_key)
        ELSE IF ch = 0 THEN Reject
        ELSE IF cmd = COLLAR_NONE THEN Reject
        ELSE [ok |-> TRUE, k |-> k, c |-> ch, cmd |-> cmd, p |-> pw]

---------------------------------------------------------------------------
(* Inputs.                                                                 *)
KeyAt   == <<4660, 43981, 65535, 0, 255, 65280, 1, 32768, 291>>
PowerAt == <<100, 255, 0, 50, 128, 1, 127>>
NumKeys   == 4      \* transmitter keys tried: KeyAt[1..NumKeys]
NumPowers == 2      \* power bytes tried: PowerAt[1..NumPowers]
MaxCmd    == 5      \* collar_cmd arguments tried: 0..MaxCmd
MaxChan   == 5      \* channel arguments tried: 0..MaxChan
MaxCount  == 3      \* negative budgets tried: -MaxCount..-1
MaxDurn   == 105    \* longest duration budget tried (ms)
MaxCalls  == 1      \* command()/keepalive() calls per run
MaxApiCalls == 2    \* packet()/send() calls per run

Keys   == {KeyAt[i] : i \in 1..NumKeys}
Powers == {PowerAt[i] : i \in 1..NumPowers}
Durns  == (-MaxCount..-1) \cup {0, 53, MaxDurn}
(* what one send() of a valid frame adds to millis(): 52.25 ms of pulses   *)
(* and inter-packet delay, rounded either way                              *)
FrameMs == {52, 53}
(* millis() when command() is called: shortly after reset, and shortly     *)
(* before the 32-bit millisecond counter wraps                             *)
MsStarts == {U32(5), <<W16 - 1, W16 - 36>>}
(* arguments of command(): every channel selector with LED, every command  *)
(* with channel 1, and ZAP on both channels                                *)
CommandArgs ==
    {a \in (0..MaxCmd) \X (0..MaxChan) :
        a[1] = COLLAR_LED \/ a[2] = 1 \/ a = <<COLLAR_ZAP, 3>>}

ValidTuple(chan, cmd) ==
    chan \in {1, 2} /\ cmd \in {COLLAR_LED, COLLAR_BEEP, COLLAR_VIB, COLLAR_ZAP}

---------------------------------------------------------------------------
(* void ShockCollar::begin(char pin, char led), and the state of the rest  *)
(* of the model when the transmitter is the part exercised.                *)
RxRestIdle ==
    /\ pkt = ZeroPkt /\ bit = 99 /\ pt = U32(0) /\ st = U32(0) /\ et = U32(0)
    /\ state = 0 /\ expect_key = 0
    /\ r_key = 0 /\ r_chan = 0 /\ r_command = 0 /\ r_power = 0
    /\ rx_ret = 0 /\ pin = 0
    /\ w_frame = ZeroPkt /\ w_idx = 42 /\ w_tuple = <<>>
    /\ w_kind = "none" /\ w_gap = U32(0) /\ w_snap = <<>>
    /\ w_adj = 0 /\ w_lost = 0 /\ heard = <<>>
    /\ nframes = 0 /\ accepted = 0

RxIdle == RxRestIdle /\ now = U32(0)

(* no decoding of buf yet *)
NoDec == [res |-> Reject, ek |-> -1]
NoObs == [el |-> -1, s |-> -1]
(* no sendpulse() made yet *)
NoPulse == [at |-> <<0, 0>>, clk |-> <<0, 0>>, wait |-> <<0, 0>>,
            rise |-> <<0, 0>>, fall |-> <<0, 0>>, on |-> 0]
(* the output at an interrupt() poll that returned r *)
NoPoll == [res |-> FALSE, n |-> -1, s |-> -1, line |-> 0]
Polled(r) == [res |-> r, n |-> npulse, s |-> Len(sent), line |-> line]

TxBegin ==
    /\ key = 4660 /\ kchan = 0 /\ interrupt = FALSE    \* key = 0x1234
    /\ lastkeepalive = U32(0)
    /\ line = 0
    /\ p_ret = -1 /\ ret = -1
    /\ pc = "idle" /\ caller = "user" /\ s_ret = "idle"
    /\ c_cmd = 0 /\ c_chan = 0 /\ c_pwr = 0 /\ durn = 0 /\ cmd_t = U32(0)
    /\ pkt1 = ZeroPkt /\ pkt2 = ZeroPkt
    /\ s_pkt = ZeroPkt /\ s_bit = 0
    /\ sent = <<>> /\ npulse = 0 /\ polled = NoPoll /\ el = 0 /\ obs = NoObs
    /\ ncalls = 0 /\ args = [call |-> "none"]
    /\ clk = U32(0) /\ clk0 = U32(0) /\ wave = <<>> /\ pulse = NoPulse

(* every deadline is met: nothing delays the transmitter *)
IdealTiming == lags = 0 /\ uint_bits = 16

---------------------------------------------------------------------------
(* void ShockCollar::send(collar_pkt &pkt)                                 *)
(*   pc = "snd_on"  : inside sendpulse(), about to raise the line          *)
(*   pc = "snd_off" : inside sendpulse(), line high                        *)
(*   pc = "snd_gap" : all 42 pulses sent, about to wait 9 ms and return    *)
(* s_bit is -1 for the start pulse, 0..39 for the data bits, 40 for the    *)
(* extra trailer bit.                                                      *)

(* Timings: (on, off) in microseconds.                                     *)
BIT_START == <<1500, 750>>
BIT_ZERO  == <<250, 750>>
BIT_ONE   == <<750, 250>>

(* entry of send(p), returning to position back *)
SendEntry(p, back) ==
    IF Bit(p[0], 7) = 0                 \* if(!pkt || !(pkt[0] & 0x80)) return;
    THEN /\ pc' = back
         /\ UNCHANGED <<s_pkt, s_bit, s_ret, clk, clk0, wave, pulse>>
    ELSE /\ s_pkt' = p
         /\ s_bit' = -1                 \* sendpulse(clk, BIT_START) is next
         /\ s_ret' = back
         /\ clk' = now                  \* clk = micros();
         /\ clk0' = now
         /\ wave' = <<>>
         /\ pulse' = NoPulse
         /\ pc' = "snd_on"

(* The (on, off) arguments of the sendpulse() call for position b of      *)
(* frame p: lines 123-128.                                                 *)
PulseArgsLsbFirst(p, b) ==
    IF b = -1 THEN BIT_START
    ELSE IF b < 40 /\ Bit(p[b \div 8], b % 8) = 1 THEN BIT_ONE
    ELSE BIT_ZERO

PulseArgs(p, b) ==
    IF b = -1 THEN BIT_START
    ELSE IF b < 40 /\ Bit(p[b \div 8], 7 - (b % 8)) = 1 THEN BIT_ONE
    ELSE BIT_ZERO

(* the unsigned long d passed as the unsigned int of delayMicroseconds()   *)
DelayArg(d) == IF uint_bits = 16 THEN <<0, d[2]>> ELSE d

(* delays the scheduler (interrupt handlers, loop overhead) may inject at  *)
(* position b of a frame: one timer tick, or more than a symbol            *)
Lags == {4, 1200}
LagAt == {-1, 0, 20, 40}
LagsAt(b) == IF lags > 0 /\ b \in LagAt THEN {0} \cup Lags ELSE {0}

(* sendpulse(), lines 97-98: delayMicroseconds(clk - micros()), then       *)
(* digitalWrite(collar_pin, HIGH)                                          *)
PulseOn ==
    /\ pc = "snd_on"
    /\ \E lag \in LagsAt(s_bit) :
          LET at   == Add32(now, U32(lag))          \* micros()
              wait == DelayArg(Sub32(clk, at))      \* clk - micros()
          IN  /\ now' = Add32(at, wait)
              /\ pulse' = [pulse EXCEPT !.at = at, !.clk = clk,
                                        !.wait = wait,
                                        !.rise = Add32(at, wait)]
              /\ lags' = IF lag > 0 THEN lags - 1 ELSE lags
    /\ line' = 1
    /\ npulse' = npulse + 1
    /\ pc' = "snd_off"
    /\ UNCHANGED <<key, kchan, interrupt, lastkeepalive, ms, buf, p_ret, ret,
                   caller, s_ret, c_cmd, c_chan, c_pwr, durn, cmd_t, pkt1,
                   pkt2, s_pkt, s_bit, sent, polled, el, obs, ncalls, args,
                   clk, uint_bits, clk0, wave>>

(* a sendpulse() that schedules the next pulse from the time it ends *)
PulseOffFromNow ==
    /\ pc = "snd_off"
    /\ \E lag \in LagsAt(s_bit) :
          LET a == PulseArgs(s_pkt, s_bit)
              t == Add32(now, U32(a[1] - 2 + lag))
          IN  /\ now' = t
              /\ clk' = Add32(t, U32(a[2]))
              /\ wave' = Append(wave, a[1])
              /\ pulse' = [pulse EXCEPT !.fall = t, !.on = a[1]]
              /\ lags' = IF lag > 0 THEN lags - 1 ELSE lags
    /\ line' = 0
    /\ s_bit' = s_bit + 1
    /\ pc' = IF s_bit < 40 THEN "snd_on" ELSE "snd_gap"
    /\ UNCHANGED <<key, kchan, interrupt, lastkeepalive, ms, buf, p_ret, ret,
                   caller, s_ret, c_cmd, c_chan, c_pwr, durn, cmd_t, pkt1,
                   pkt2, s_pkt, sent, npulse, polled, el, obs, ncalls, args,
                   uint_bits, clk0>>

(* sendpulse(), lines 99-101: delayMicroseconds(on - 2),                   *)
(* digitalWrite(collar_pin, LOW), clk += on + off; and the loop control of *)
(* send(): for(bit = 0; bit < 40; bit++), then the 2nd trailer bit         *)
PulseOff ==
    /\ pc = "snd_off"
    /\ \E lag \in LagsAt(s_bit) :
          LET a == PulseArgs(s_pkt, s_bit)
              t == Add32(now, U32(a[1] - 2 + lag))
          IN  /\ now' = t
              /\ clk' = Add32(clk, U32(a[1] + a[2]))
              /\ wave' = Append(wave, a[1])
              /\ pulse' = [pulse EXCEPT !.fall = t, !.on = a[1]]
              /\ lags' = IF lag > 0 THEN lags - 1 ELSE lags
    /\ line' = 0
    /\ s_bit' = s_bit + 1
    /\ pc' = IF s_bit < 40 THEN "snd_on" ELSE "snd_gap"
    /\ UNCHANGED <<key, kchan, interrupt, lastkeepalive, ms, buf, p_ret, ret,
                   caller, s_ret, c_cmd, c_chan, c_pwr, durn, cmd_t, pkt1,
                   pkt2, s_pkt, sent, npulse, polled, el, obs, ncalls, args,
                   uint_bits, clk0>>

(* send(), lines 129-131: delayMicroseconds(9000) and return; millis() has *)
(* advanced by the frame                                                   *)
Gap ==
    /\ pc = "snd_gap"
    /\ \E d \in FrameMs :
          /\ ms' = Add32(ms, U32(d))
          /\ el' = el + d
    /\ now' = Add32(now, U32(9000))
    /\ pc' = s_ret
    /\ UNCHANGED <<key, kchan, interrupt, lastkeepalive, line, buf, p_ret,
                   ret, caller, s_ret, c_cmd, c_chan, c_pwr, durn, cmd_t,
                   pkt1, pkt2, s_pkt, s_bit, sent, npulse, polled, obs,
                   ncalls, args, sendvars>>

(* the transmitter's steps with no receiver listening *)
SendPulseOn == PulseOn /\ UNCHANGED <<codecvars, rxrest>>
SendPulseOff == PulseOff /\ UNCHANGED <<codecvars, rxrest>>
SendGap == Gap /\ UNCHANGED <<codecvars, rxrest>>

---------------------------------------------------------------------------
(* int ShockCollar::command(collar_cmd cmd, char chan, char pwr, long durn)*)
(*   pc = "cmd_poll"  : top of for(;;), line 160                           *)
(*   pc = "cmd_check" : budget test, lines 161-163                         *)
(*   pc = "cmd_send1" : line 167        pc = "cmd_send2" : line 168        *)

(* return v from command(); keepalive() then records millis() *)
CmdReturn(v, who, m) ==
    /\ ret' = v
    /\ pc' = "idle"
    /\ lastkeepalive' = IF who = "keepalive" THEN m ELSE lastkeepalive

(* lines 147-154: t = millis(), which reads m, and construct the packet(s) *)
CommandEntry(cmd, chan, pwr, d, who, m) ==
    \* pkt1, pkt2 are fresh locals: one that is not constructed is never
    \* read, and is kept as ZeroPkt
    LET r1 == IF Bit(chan, 0) = 1 THEN packet(ZeroPkt, key', 1, cmd, pwr)
              ELSE [ret |-> 1, pkt |-> ZeroPkt]
        r2 == IF Bit(chan, 1) = 1 THEN packet(ZeroPkt, key', 2, cmd, pwr)
              ELSE [ret |-> 1, pkt |-> ZeroPkt]
    IN  /\ c_cmd' = cmd /\ c_chan' = chan /\ c_pwr' = pwr /\ durn' = d
        /\ cmd_t' = m /\ ms' = m
        /\ caller' = who
        /\ pkt1' = r1.pkt
        /\ pkt2' = IF r1.ret = 1 THEN r2.pkt ELSE ZeroPkt
        /\ sent' = <<>> /\ npulse' = 0 /\ polled' = NoPoll /\ el' = 0 /\ obs' = NoObs
        /\ clk' = U32(0) /\ clk0' = U32(0) /\ wave' = <<>> /\ pulse' = NoPulse
        /\ IF r1.ret = 1 /\ r2.ret = 1
           THEN /\ pc' = "cmd_poll" /\ ret' = -1
                /\ lastkeepalive' = lastkeepalive
           ELSE CmdReturn(0, who, m)

(* micros() when the user calls command(): 20 ms before the 32-bit        *)
(* counter wraps                                                           *)
CallTime == <<W16 - 1, W16 - 20000>>

(* the user sets interrupt and, at a time of their choosing, calls         *)
(* command()                                                               *)
CallCommand ==
    /\ pc = "idle"
    /\ ncalls < MaxCalls
    /\ \E intr \in BOOLEAN, a \in CommandArgs, d \in Durns, m \in MsStarts :
          /\ interrupt' = intr
          /\ key' = key
          /\ CommandEntry(a[1], a[2], PowerAt[1], d, "user", m)
          /\ args' = [call |-> "command", cmd |-> a[1], chan |-> a[2],
                      durn |-> d]
    /\ now' = CallTime
    /\ ncalls' = ncalls + 1
    /\ UNCHANGED <<kchan, line, buf, p_ret, s_ret, s_pkt, s_bit, uint_bits,
                   lags>>
    /\ UNCHANGED <<codecvars, rxrest>>

(* a poll whose result is ignored *)
CmdPollNoReturn ==
    /\ pc = "cmd_poll"
    /\ ms' = ms
    /\ IF interrupt
       THEN \E r \in BOOLEAN :
                  /\ polled' = Polled(r)
                  /\ pc' = "cmd_check"
                  /\ UNCHANGED <<ret, lastkeepalive>>
       ELSE /\ pc' = "cmd_check"
            /\ UNCHANGED <<polled, ret, lastkeepalive>>
    /\ UNCHANGED <<key, kchan, interrupt, line, buf, p_ret, caller, s_ret,
                   c_cmd, c_chan, c_pwr, durn, cmd_t, pkt1, pkt2, s_pkt,
                   s_bit, sent, npulse, el, obs, ncalls, args, sendvars>>
    /\ UNCHANGED <<codecvars, rxvars>>

(* line 160: if(interrupt) if(interrupt()) return 2; *)
CmdPoll ==
    /\ pc = "cmd_poll"
    /\ ms' = ms
    /\ IF interrupt
       THEN \E r \in BOOLEAN :           \* what interrupt() returns
                  /\ polled' = Polled(r)
                  /\ IF r THEN CmdReturn(2, caller, ms)
                     ELSE /\ pc' = "cmd_check"
                          /\ UNCHANGED <<ret, lastkeepalive>>
       ELSE /\ pc' = "cmd_check"
            /\ UNCHANGED <<polled, ret, lastkeepalive>>
    /\ UNCHANGED <<key, kchan, interrupt, line, buf, p_ret, caller, s_ret,
                   c_cmd, c_chan, c_pwr, durn, cmd_t, pkt1, pkt2, s_pkt,
                   s_bit, sent, npulse, el, obs, ncalls, args, sendvars>>
    /\ UNCHANGED <<codecvars, rxvars>>

(* a budget test that needs more than durn ms to have passed *)
BudgetDoneStrict(d, elapsed) == d >= 0 /\ GeU32(elapsed, d + 1)

(* lines 161-163: the budget test.  millis() may have ticked since the     *)
(* last read.                                                              *)
(*   if((durn >= 0 && millis() - t >= durn) || (durn < 0 && ++durn >= 0))  *)
(*       return 1;                                                         *)
BudgetDone(d, elapsed) == d >= 0 /\ GeU32(elapsed, d)

CmdCheck ==
    /\ pc = "cmd_check"
    /\ \E tick \in {0, 1} :
          LET m == Add32(ms, U32(tick))                     \* millis()
              d == IF durn < 0 THEN durn + 1 ELSE durn      \* ++durn
          IN  /\ ms' = m
              /\ el' = el + tick
              /\ obs' = [el |-> el + tick, s |-> Len(sent)]
              /\ durn' = d
              /\ IF BudgetDone(durn, Sub32(m, cmd_t)) \/ (durn < 0 /\ d >= 0)
                 THEN CmdReturn(1, caller, m)
                 ELSE /\ pc' = "cmd_send1"
                      /\ UNCHANGED <<ret, lastkeepalive>>
    /\ UNCHANGED <<key, kchan, interrupt, line, buf, p_ret, caller, s_ret,
                   c_cmd, c_chan, c_pwr, cmd_t, pkt1, pkt2, s_pkt, s_bit,
                   sent, npulse, polled, ncalls, args, sendvars>>
    /\ UNCHANGED <<codecvars, rxvars>>

(* line 167: if(chan & 1) send(pkt1); *)
CmdSend1 ==
    /\ pc = "cmd_send1"
    /\ IF Bit(c_chan, 0) = 1
       THEN /\ SendEntry(pkt1, "cmd_send2")
            /\ sent' = Append(sent, 1)
       ELSE /\ pc' = "cmd_send2"
            /\ UNCHANGED <<s_pkt, s_bit, s_ret, sent, clk, clk0, wave, pulse>>
    /\ UNCHANGED <<key, kchan, interrupt, lastkeepalive, line, ms, buf, p_ret,
                   ret, caller, c_cmd, c_chan, c_pwr, durn, cmd_t, pkt1, pkt2,
                   npulse, polled, el, obs, ncalls, args, uint_bits, lags>>
    /\ UNCHANGED <<codecvars, rxvars>>

(* line 168: if(chan & 2) send(pkt2); then back to the top of the loop *)
CmdSend2 ==
    /\ pc = "cmd_send2"
    /\ IF Bit(c_chan, 1) = 1
       THEN /\ SendEntry(pkt2, "cmd_poll")
            /\ sent' = Append(sent, 2)
       ELSE /\ pc' = "cmd_poll"
            /\ UNCHANGED <<s_pkt, s_bit, s_ret, sent, clk, clk0, wave, pulse>>
    /\ UNCHANGED <<key, kchan, interrupt, lastkeepalive, line, ms, buf, p_ret,
                   ret, caller, c_cmd, c_chan, c_pwr, durn, cmd_t, pkt1, pkt2,
                   npulse, polled, el, obs, ncalls, args, uint_bits, lags>>
    /\ UNCHANGED <<codecvars, rxvars>>

---------------------------------------------------------------------------
(* void ShockCollar::keepalive(): the user sets kchan and calls it.        *)
CallKeepalive ==
    /\ pc = "idle"
    /\ ncalls < MaxCalls
    /\ \E kc \in 0..3 :
          /\ kchan' = kc
          /\ UNCHANGED <<key, interrupt>>
          /\ args' = [call |-> "keepalive", chan |-> kc]
          /\ IF kc = 0 \/ LtU32(Sub32(ms, lastkeepalive), COLLAR_KEEPALIVE)
             THEN \* return;
                  /\ UNCHANGED <<lastkeepalive, ms, ret, pc, caller, c_cmd,
                                 c_chan, c_pwr, durn, cmd_t, pkt1, pkt2, sent,
                                 npulse, polled, el, obs, clk, clk0, wave,
                                 pulse>>
             ELSE \* command(COLLAR_LED, kchan, 50, -3);
                  CommandEntry(COLLAR_LED, kc, 50, -3, "keepalive", ms)
    /\ ncalls' = ncalls + 1
    /\ UNCHANGED <<line, buf, p_ret, s_ret, s_pkt, s_bit, uint_bits, lags>>
    /\ UNCHANGED <<codecvars, rxvars>>

---------------------------------------------------------------------------
(* The transmitter running sessions.                                       *)
TxInit ==
    /\ TxBegin /\ IdealTiming
    /\ ms = U32(0)
    /\ buf = ZeroPkt
    /\ origin = "init" /\ dec = NoDec
    /\ RxIdle

TxNext ==
    \/ CallCommand
    \/ CmdPoll
    \/ CmdCheck
    \/ CmdSend1
    \/ CmdSend2
    \/ SendPulseOn
    \/ SendPulseOff
    \/ SendGap

SpecTx == TxInit /\ [][TxNext]_vars

(* The transmitter running keepalive(), which calls command().             *)
KeepaliveInit ==
    /\ TxBegin /\ IdealTiming
    /\ ms \in {U32(5), U32(COLLAR_KEEPALIVE - 1), U32(COLLAR_KEEPALIVE)}
    /\ buf = ZeroPkt
    /\ origin = "init" /\ dec = NoDec
    /\ RxIdle

KeepaliveNext ==
    \/ CallKeepalive
    \/ CmdPoll
    \/ CmdCheck
    \/ CmdSend1
    \/ CmdSend2
    \/ SendPulseOn
    \/ SendPulseOff
    \/ SendGap

SpecKeepalive == KeepaliveInit /\ [][KeepaliveNext]_vars

---------------------------------------------------------------------------
(* The codec and send() called directly on a buffer of the caller's:       *)
(* packet() fills it, send() transmits it, and Decode reads it as the      *)
(* receiver reads a complete frame, which ends the exercise.               *)
(* what a caller's collar_pkt may hold before the first call *)
InitBufs == {ZeroPkt, MkPkt(255, 255, 255, 255, 255),
             MkPkt(129, 171, 205, 100, 126)}

(* arguments of packet(): every sampled key and power with the valid       *)
(* channels and commands, one key and power with the others                *)
PacketArgs ==
    {a \in Keys \X (0..MaxChan) \X (0..MaxCmd) \X Powers :
        ValidTuple(a[2], a[3]) \/ (a[1] = KeyAt[1] /\ a[4] = PowerAt[1])}

ApiPacket ==
    /\ pc = "idle"
    /\ ncalls < MaxApiCalls
    /\ dec = NoDec
    /\ \E a \in PacketArgs :
          LET r == packet(buf, a[1], a[2], a[3], a[4])
          IN  /\ buf' = r.pkt
              /\ p_ret' = r.ret
              /\ origin' = IF r.ret = 1 THEN "packet" ELSE "rejected"
              /\ args' = [call |-> "packet", key |-> a[1], chan |-> a[2],
                          cmd |-> a[3], pwr |-> a[4]]
    /\ dec' = NoDec
    /\ sent' = <<>> /\ npulse' = 0
    /\ ncalls' = ncalls + 1
    /\ UNCHANGED <<key, kchan, interrupt, lastkeepalive, line, ms, ret, pc,
                   caller, s_ret, c_cmd, c_chan, c_pwr, durn, cmd_t, pkt1,
                   pkt2, s_pkt, s_bit, polled, el, obs, sendvars>>
    /\ UNCHANGED rxvars

ApiSend ==
    /\ pc = "idle"
    /\ ncalls < MaxApiCalls
    /\ dec = NoDec
    /\ SendEntry(buf, "idle")
    /\ sent' = Append(sent, 0)
    /\ npulse' = 0
    /\ ncalls' = ncalls + 1
    /\ UNCHANGED <<key, kchan, interrupt, lastkeepalive, line, ms, buf, p_ret,
                   ret, caller, c_cmd, c_chan, c_pwr, durn, cmd_t, pkt1, pkt2,
                   polled, el, obs, args, uint_bits, lags>>
    /\ UNCHANGED <<codecvars, rxvars>>

ApiDecode ==
    /\ pc = "idle"
    /\ dec = NoDec
    /\ origin # "rejected"
    /\ \E ek \in {0} \cup Keys :
          dec' = [res |-> Decode(buf, ek), ek |-> ek]
    /\ UNCHANGED <<txvars, origin, rxvars>>

ApiInit ==
    /\ TxBegin /\ IdealTiming
    /\ ms = U32(5)
    /\ buf \in InitBufs
    /\ origin = "init" /\ dec = NoDec
    /\ RxIdle

ApiNext ==
    \/ ApiPacket
    \/ ApiDecode
    \/ ApiSend
    \/ SendPulseOn
    \/ SendPulseOff
    \/ SendGap

SpecApi == ApiInit /\ [][ApiNext]_vars

---------------------------------------------------------------------------
(* The receiver's validation applied to complete buffers of any content in *)
(* bytes 0 and 4, as a line with noise could assemble them.                *)
AnyBuf(b0, b4, i) ==
    MkPkt(b0, KeyAt[i] \div 256, KeyAt[i] % 256, PowerAt[i], b4)

DecodeInit ==
    /\ TxBegin /\ IdealTiming
    /\ ms = U32(5)
    /\ \E b0 \in 0..255, b4 \in 0..255, i \in 1..2 : buf = AnyBuf(b0, b4, i)
    /\ origin = "init" /\ dec = NoDec
    /\ RxIdle

DecodeNext == ApiDecode

SpecDecode == DecodeInit /\ [][DecodeNext]_vars

---------------------------------------------------------------------------
(* send() called on valid frames, on either build, by a scheduler that may *)
(* delay the transmitter.                                                  *)
MaxLags == 1        \* delays injected per run

SendBufs == {packet(ZeroPkt, KeyAt[2], 1, COLLAR_ZAP, PowerAt[1]).pkt,
             packet(ZeroPkt, KeyAt[1], 2, COLLAR_LED, PowerAt[2]).pkt}
(* micros() at the first call: small, 20 ms before it passes 2^31, which   *)
(* is where long clk changes sign, 20 ms before it wraps                   *)
SendStarts == {U32(1000), <<W16 \div 2 - 1, W16 - 20000>>,
               <<W16 - 1, W16 - 20000>>}

SendInit ==
    /\ TxBegin
    /\ lags = MaxLags
    /\ uint_bits \in {16, 32}
    /\ ms = U32(5)
    /\ buf \in SendBufs
    /\ origin = "packet" /\ dec = NoDec
    /\ RxRestIdle
    /\ now \in SendStarts

SendNext ==
    \/ ApiSend
    \/ SendPulseOn
    \/ SendPulseOff
    \/ SendGap

SpecSend == SendInit /\ [][SendNext]_vars

---------------------------------------------------------------------------
(* void ShockCollarRemote::begin(char pin).  key, chan, command and power  *)
(* are not set by begin(): they hold what the object's storage held.       *)
RxBegin ==
    /\ pt = U32(0) /\ et = U32(0) /\ st = U32(0)
    /\ state = 0
    /\ bit = 99
    /\ expect_key = 0

(* char ShockCollarRemote::receive(), called when digitalRead(remote_pin)  *)
(* returns b and micros() returns ct.                                      *)
RxKeep == UNCHANGED <<r_key, r_chan, r_command, r_power, et, accepted>>

(* lines 301-320: a decoded frame d, received in full at ct *)
Accept(d, ct) ==
    /\ et' = ct                                    \* et = ct;
    /\ accepted' = accepted + 1
    /\ IF /\ ToLong(Sub32(st, et)) < 120000        \* t = st - et; t < 120000
          /\ d.k = r_key /\ d.c = r_chan /\ d.cmd = r_command
          /\ d.p = r_power
       THEN /\ rx_ret' = 2
            /\ UNCHANGED <<r_key, r_chan, r_command, r_power>>
       ELSE /\ r_key' = d.k /\ r_chan' = d.c /\ r_command' = d.cmd
            /\ r_power' = d.p
            /\ rx_ret' = 1

(* a receiver whose frame-duration window is 36..43 ms *)
DataBitWideGate(b, ct) ==
    IF bit >= 40
    THEN /\ rx_ret' = 0
         /\ UNCHANGED <<pkt, bit, st>>
         /\ RxKeep
    ELSE LET np == [pkt EXCEPT ![bit \div 8] =
                                 Or8(@, b * 2 ^ (7 - (bit % 8)))]
             t  == ToLong(Sub32(ct, st))
             d  == Decode(np, expect_key)
         IN  /\ pkt' = np
             /\ bit' = bit + 1
             /\ UNCHANGED st
             /\ IF bit + 1 # 40 \/ t < 36000 \/ t > 43000
                THEN rx_ret' = 0 /\ RxKeep
                ELSE IF ~d.ok
                     THEN rx_ret' = 0 /\ RxKeep
                     ELSE Accept(d, ct)

(* a receiver that notes the end time of every 40-bit frame, good or bad *)
DataBitEtFirst(b, ct) ==
    IF bit >= 40
    THEN /\ rx_ret' = 0
         /\ UNCHANGED <<pkt, bit, st>>
         /\ RxKeep
    ELSE LET np == [pkt EXCEPT ![bit \div 8] =
                                 Or8(@, b * 2 ^ (7 - (bit % 8)))]
             t  == ToLong(Sub32(ct, st))
             d  == Decode(np, expect_key)
         IN  /\ pkt' = np
             /\ bit' = bit + 1
             /\ UNCHANGED st
             /\ IF bit + 1 # 40
                THEN rx_ret' = 0 /\ RxKeep
                ELSE IF t < 37000 \/ t > 42000 \/ ~d.ok
                     THEN /\ rx_ret' = 0
                          /\ et' = ct
                          /\ UNCHANGED <<r_key, r_chan, r_command, r_power,
                                         accepted>>
                     ELSE Accept(d, ct)

(* a receiver that keeps counting bits after the 40th *)
DataBitNoLimit(b, ct) ==
    LET np == IF bit \div 8 \in DOMAIN pkt
              THEN [pkt EXCEPT ![bit \div 8] =
                                 Or8(@, b * 2 ^ (7 - (bit % 8)))]
              ELSE pkt
        t  == ToLong(Sub32(ct, st))
        d  == Decode(np, expect_key)
    IN  /\ pkt' = np
        /\ bit' = bit + 1
        /\ UNCHANGED st
        /\ IF bit + 1 # 40 \/ t < 37000 \/ t > 42000
           THEN rx_ret' = 0 /\ RxKeep
           ELSE IF ~d.ok
                THEN rx_ret' = 0 /\ RxKeep
                ELSE Accept(d, ct)

(* lines 262-299: a data bit b whose pulse ended at ct *)
DataBit(b, ct) ==
    IF bit >= 40                                    \* if(bit >= 40) return 0;
    THEN /\ rx_ret' = 0
         /\ UNCHANGED <<pkt, bit, st>>
         /\ RxKeep
    ELSE LET np == [pkt EXCEPT ![bit \div 8] =
                                 Or8(@, b * 2 ^ (7 - (bit % 8)))]
             t  == ToLong(Sub32(ct, st))            \* t = ct - st;
             d  == Decode(np, expect_key)
         IN  /\ pkt' = np
             /\ bit' = bit + 1
             /\ UNCHANGED st
             /\ IF bit + 1 # 40 \/ t < 37000 \/ t > 42000
                THEN rx_ret' = 0 /\ RxKeep
                ELSE IF ~d.ok
                     THEN rx_ret' = 0 /\ RxKeep
                     ELSE Accept(d, ct)

(* a start marker that keeps what the buffer holds *)
StartMarkerNoErase(ct) ==
    /\ bit' = 0
    /\ st' = ct
    /\ rx_ret' = 0
    /\ UNCHANGED pkt
    /\ RxKeep

(* lines 253-259: a start pulse that ended at ct *)
StartMarker(ct) ==
    /\ pkt' = ZeroPkt                  \* erase the packet
    /\ bit' = 0                        \* start bit counter
    /\ st' = ct                        \* and record start time
    /\ rx_ret' = 0
    /\ RxKeep

receive(b, ct) ==
    IF b = state                                    \* if(b == state) return 0;
    THEN /\ rx_ret' = 0
         /\ UNCHANGED <<state, pt, st, pkt, bit>>
         /\ RxKeep
    ELSE /\ state' = b
         /\ IF b = 1                                \* pulse start
            THEN /\ pt' = ct
                 /\ rx_ret' = 0
                 /\ UNCHANGED <<st, pkt, bit>>
                 /\ RxKeep
            ELSE LET t == ToLong(Sub32(ct, pt))     \* t = ct - pt;
                 IN  /\ UNCHANGED pt
                     /\ IF t > 100 /\ t < 400
                        THEN DataBit(0, ct)
                        ELSE IF t > 600 /\ t < 900
                        THEN DataBit(1, ct)
                        ELSE IF t > 1300 /\ t < 1700
                        THEN StartMarker(ct)
                        ELSE /\ rx_ret' = 0         \* noise
                             /\ UNCHANGED <<st, pkt, bit>>
                             /\ RxKeep

---------------------------------------------------------------------------
(* The wire: frames arrive as the transmitter's send() emits them, one     *)
(* start pulse, 40 data pulses and the extra zero pulse, and receive() is  *)
(* called at every edge, and between edges.                                *)
MaxFrames == 2      \* frames put on the wire per run

WireBit(f, j) == Bit(f[(j - 1) \div 8], 7 - ((j - 1) % 8))
Symbol(f, j) ==
    IF j = 0 THEN BIT_START
    ELSE IF j <= 40 /\ WireBit(f, j) = 1 THEN BIT_ONE
    ELSE BIT_ZERO

ValidFrame(k, c, m, p) ==
    [frame |-> packet(ZeroPkt, k, c, m, p).pkt, tuple |-> <<k, c, m, p>>,
     kind |-> "valid", adj |-> 0, lost |-> 0]
(* the frame with bit i of byte 4 flipped in transit *)
FlipFrame(k, c, m, p, i) ==
    [frame |-> [packet(ZeroPkt, k, c, m, p).pkt EXCEPT ![4] = Xor8(@, 2 ^ i)],
     tuple |-> <<k, c, m, p>>, kind |-> "flip", adj |-> 0, lost |-> 0]
(* the frame sent by a transmitter whose 40 bits take a microseconds more  *)
(* than nominal, or less                                                   *)
TimedFrame(k, c, m, p, a) == [ValidFrame(k, c, m, p) EXCEPT !.adj = a]
(* the frame whose data pulse j arrives with a width that is no symbol's *)
LossyFrame(k, c, m, p, j) == [ValidFrame(k, c, m, p) EXCEPT !.lost = j]

(* a pulse width receive() takes for noise: lines 249-260 *)
NoiseWidth == BIT_ZERO[1] + BIT_ZERO[1]
(* on and off time of pulse j of the frame on the wire: the period of a    *)
(* symbol is kept, and w_adj is spread over the 40 off times between the   *)
(* end of the start pulse and the 40th data pulse                          *)
WireOn(j) ==
    IF j >= 1 /\ j = w_lost THEN NoiseWidth ELSE Symbol(w_frame, j)[1]
WireOff(j) ==
    Symbol(w_frame, j)[1] + Symbol(w_frame, j)[2] - WireOn(j)
    + (IF j <= 39 THEN w_adj \div 40 ELSE 0)
    + (IF j = 0 THEN w_adj % 40 ELSE 0)

Stored == <<r_key, r_chan, r_command, r_power>>

(* the next frame f starts after a silence sil on the line *)
WireNext(Menu, Silences) ==
    /\ w_idx = 42 /\ pin = 0
    /\ nframes < MaxFrames
    /\ \E f \in Menu, sil \in Silences :
          /\ w_frame' = f.frame /\ w_tuple' = f.tuple /\ w_kind' = f.kind
          /\ w_adj' = f.adj /\ w_lost' = f.lost
          /\ w_gap' = sil
    /\ w_idx' = 0
    /\ w_snap' = [stored |-> Stored, et |-> et, accepted |-> accepted,
                  bit |-> bit]
    /\ nframes' = nframes + 1
    /\ UNCHANGED <<pkt, bit, pt, st, et, state, expect_key, r_key, r_chan,
                   r_command, r_power, rx_ret, pin, now, accepted, heard>>
    /\ UNCHANGED <<txvars, codecvars>>

WireRise ==
    /\ w_idx <= 41 /\ pin = 0
    /\ now' = Add32(now, w_gap)
    /\ pin' = 1
    /\ receive(1, Add32(now, w_gap))
    /\ UNCHANGED <<expect_key, w_frame, w_idx, w_tuple, w_kind, w_gap, w_snap,
                   w_adj, w_lost, heard, nframes>>
    /\ UNCHANGED <<txvars, codecvars>>

WireFall ==
    /\ pin = 1
    /\ now' = Add32(now, U32(WireOn(w_idx)))
    /\ pin' = 0
    /\ receive(0, Add32(now, U32(WireOn(w_idx))))
    /\ w_idx' = w_idx + 1
    /\ w_gap' = U32(WireOff(w_idx))
    /\ heard' = IF w_idx = 0 THEN <<>>
                ELSE IF w_idx = w_lost THEN heard        \* noise
                ELSE Append(heard, IF Symbol(w_frame, w_idx) = BIT_ONE
                                   THEN 1 ELSE 0)
    /\ UNCHANGED <<expect_key, w_frame, w_tuple, w_kind, w_snap, w_adj,
                   w_lost, nframes>>
    /\ UNCHANGED <<txvars, codecvars>>

(* the transmitter abandons the frame after pulse w_idx - 1 and starts     *)
(* another: a start pulse arrives where a data pulse was due               *)
RestartAt == {1, 20, 41}
WireRestart(Menu) ==
    /\ w_idx \in RestartAt /\ pin = 0
    /\ nframes < MaxFrames
    /\ \E f \in Menu :
          /\ w_frame' = f.frame /\ w_tuple' = f.tuple /\ w_kind' = f.kind
          /\ w_adj' = f.adj /\ w_lost' = f.lost
    /\ w_idx' = 0
    /\ w_snap' = [stored |-> Stored, et |-> et, accepted |-> accepted,
                  bit |-> bit]
    /\ nframes' = nframes + 1
    /\ UNCHANGED <<pkt, bit, pt, st, et, state, expect_key, r_key, r_chan,
                   r_command, r_power, rx_ret, pin, now, accepted, heard,
                   w_gap>>
    /\ UNCHANGED <<txvars, codecvars>>

(* receive() called with the pin as it was *)
RxPoll ==
    /\ receive(pin, now)
    /\ UNCHANGED <<expect_key, pin, now, w_frame, w_idx, w_tuple, w_kind,
                   w_gap, w_snap, w_adj, w_lost, heard, nframes>>
    /\ UNCHANGED <<txvars, codecvars>>

TxIdle ==
    /\ TxBegin /\ IdealTiming /\ ms = U32(0) /\ buf = ZeroPkt
    /\ origin = "init" /\ dec = NoDec

(* micros() when the run starts: 20 ms before the 32-bit counter wraps *)
NowStart == <<W16 - 1, W16 - 20000>>

WireIdle ==
    /\ pin = 0 /\ now = NowStart
    /\ w_frame = ZeroPkt /\ w_idx = 42 /\ w_tuple = <<>>
    /\ w_kind = "none" /\ w_gap = U32(0) /\ w_snap = <<>>
    /\ w_adj = 0 /\ w_lost = 0 /\ heard = <<>>
    /\ nframes = 0 /\ accepted = 0
    /\ pkt = ZeroPkt /\ rx_ret = 0

(* silence between the extra pulse of one frame and the start pulse of the *)
(* next, as send() leaves it: the pulse's off time and the 9 ms delay      *)
NominalSilence == U32(BIT_ZERO[2] + 9000)

---------------------------------------------------------------------------
(* The receiver fed frames of which some were corrupted in transit or come *)
(* from another transmitter.                                               *)
RxKeys == {KeyAt[1], KeyAt[2]}
RxMenu ==
    {ValidFrame(k, c, m, PowerAt[1]) :
        k \in RxKeys, c \in {1, 2}, m \in COLLAR_LED..COLLAR_ZAP}
    \cup
    {FlipFrame(KeyAt[1], c, m, PowerAt[1], i) :
        c \in {1, 2}, m \in COLLAR_LED..COLLAR_ZAP, i \in 0..7}

RxInit ==
    /\ TxIdle
    /\ pt = U32(0) /\ et = U32(0) /\ st = U32(0) /\ state = 0 /\ bit = 99
    /\ expect_key \in {0} \cup RxKeys
    /\ r_key = 0 /\ r_chan = 0 /\ r_command = 0 /\ r_power = 0
    /\ WireIdle

RxNext ==
    \/ WireNext(RxMenu, {NominalSilence})
    \/ WireRise
    \/ WireFall
    \/ RxPoll

SpecRx == RxInit /\ [][RxNext]_vars

---------------------------------------------------------------------------
(* The receiver fed valid frames at chosen distances.                      *)

(* from the end of the 40th data pulse of a frame (et) to the end of the   *)
(* next frame's start pulse (st), less the silence between the frames      *)
GapLessSilence == BIT_ZERO[2] + BIT_ZERO[1] + BIT_START[1]
SilenceForGap(g) == Sub32(g, U32(GapLessSilence))

GapMenu == {Add32(NominalSilence, U32(GapLessSilence)),
            U32(119999), U32(120000),
            <<32767, 65535>>, <<32768, 0>>}

DebounceMenu ==
    {ValidFrame(KeyAt[1], 1, COLLAR_ZAP, PowerAt[1]),
     ValidFrame(KeyAt[2], 1, COLLAR_ZAP, PowerAt[1]),
     ValidFrame(KeyAt[1], 2, COLLAR_ZAP, PowerAt[1]),
     ValidFrame(KeyAt[1], 1, COLLAR_LED, PowerAt[1]),
     ValidFrame(KeyAt[1], 1, COLLAR_ZAP, PowerAt[2])}

DebounceInit ==
    /\ TxIdle
    /\ RxBegin
    /\ r_key = 0 /\ r_chan = 0 /\ r_command = 0 /\ r_power = 0
    /\ WireIdle

DebounceNext ==
    \/ WireNext(DebounceMenu, {SilenceForGap(g) : g \in GapMenu})
    \/ WireRise
    \/ WireFall
    \/ RxPoll

SpecDebounce == DebounceInit /\ [][DebounceNext]_vars

---------------------------------------------------------------------------
(* The receiver fed valid frames from transmitters whose bit clocks run    *)
(* fast or slow: the 40 bits take 36, 36.999, 37, 40, 42, 42.001 or 43 ms. *)
GateAdjs == {-4000, -3001, -3000, 0, 2000, 2001, 3000}
GateMenu ==
    {TimedFrame(KeyAt[1], 1, COLLAR_ZAP, PowerAt[1], a) : a \in GateAdjs}
    \cup
    {TimedFrame(KeyAt[1], 2, COLLAR_LED, PowerAt[1], a) : a \in GateAdjs}

GateInit ==
    /\ TxIdle
    /\ RxBegin
    /\ r_key = 0 /\ r_chan = 0 /\ r_command = 0 /\ r_power = 0
    /\ WireIdle

GateNext ==
    \/ WireNext(GateMenu, {NominalSilence})
    \/ WireRise
    \/ WireFall
    \/ RxPoll

SpecGate == GateInit /\ [][GateNext]_vars

---------------------------------------------------------------------------
(* The receiver on a noisy line: good frames, frames of another            *)
(* transmitter, frames with a flipped bit, a slow frame, frames with a     *)
(* pulse cut short, and frames abandoned part way for a new start pulse.   *)
NoiseMenu ==
    {ValidFrame(KeyAt[1], 1, COLLAR_ZAP, PowerAt[1]),
     ValidFrame(KeyAt[2], 2, COLLAR_LED, PowerAt[1]),
     FlipFrame(KeyAt[1], 1, COLLAR_ZAP, PowerAt[1], 2),
     FlipFrame(KeyAt[1], 1, COLLAR_ZAP, PowerAt[1], 5),
     TimedFrame(KeyAt[1], 1, COLLAR_ZAP, PowerAt[1], 3000),
     LossyFrame(KeyAt[1], 1, COLLAR_ZAP, PowerAt[1], 20),
     LossyFrame(KeyAt[2], 2, COLLAR_LED, PowerAt[1], 1)}

NoiseInit ==
    /\ TxIdle
    /\ pt = U32(0) /\ et = U32(0) /\ st = U32(0) /\ state = 0 /\ bit = 99
    /\ expect_key \in {0, KeyAt[1]}      \* set by the sketch after begin()
    /\ r_key = 0 /\ r_chan = 0 /\ r_command = 0 /\ r_power = 0
    /\ WireIdle

NoiseNext ==
    \/ WireNext(NoiseMenu, {NominalSilence})
    \/ WireRestart(NoiseMenu)
    \/ WireRise
    \/ WireFall
    \/ RxPoll

SpecNoise == NoiseInit /\ [][NoiseNext]_vars

---------------------------------------------------------------------------
(* The receiver when one data pulse of a frame is cut to noise width: a    *)
(* good frame, then a frame of any key, channel and command with any one   *)
(* of its 40 data pulses cut, then good frames again.                      *)
LossFrames ==
    {LossyFrame(k, c, m, PowerAt[1], j) :
        k \in RxKeys, c \in {1, 2}, m \in COLLAR_LED..COLLAR_ZAP,
        j \in 1..40}
GoodFrames ==
    {ValidFrame(KeyAt[1], 1, COLLAR_ZAP, PowerAt[1]),
     ValidFrame(KeyAt[2], 2, COLLAR_LED, PowerAt[1])}
LossMenu == IF nframes = 1 THEN LossFrames ELSE GoodFrames

LossInit ==
    /\ TxIdle
    /\ pt = U32(0) /\ et = U32(0) /\ st = U32(0) /\ state = 0 /\ bit = 99
    /\ expect_key \in {0, KeyAt[1]}      \* set by the sketch after begin()
    /\ r_key = 0 /\ r_chan = 0 /\ r_command = 0 /\ r_power = 0
    /\ WireIdle

LossNext ==
    \/ WireNext(LossMenu, {NominalSilence})
    \/ WireRise
    \/ WireFall
    \/ RxPoll

SpecLoss == LossInit /\ [][LossNext]_vars

---------------------------------------------------------------------------
(* Transmitter and receiver joined: collar_pin drives remote_pin, and      *)
(* receive() is called at every edge that sendpulse() makes.               *)

(* the user calls command(), once; w_tuple and w_snap note what is to be   *)
(* sent and what the receiver held                                         *)
LinkCall ==
    /\ pc = "idle"
    /\ ncalls = 0
    /\ \E a \in CommandArgs, d \in Durns, m \in MsStarts :
          /\ key' = key /\ interrupt' = FALSE
          /\ CommandEntry(a[1], a[2], PowerAt[1], d, "user", m)
          /\ args' = [call |-> "command", cmd |-> a[1], chan |-> a[2],
                      durn |-> d]
          /\ w_tuple' = <<key, a[2], a[1], PowerAt[1]>>
    /\ w_snap' = [stored |-> Stored, et |-> et, accepted |-> accepted,
                  bit |-> bit]
    /\ w_kind' = "link"
    /\ ncalls' = ncalls + 1
    /\ UNCHANGED <<kchan, line, buf, p_ret, s_ret, s_pkt, s_bit, uint_bits,
                   lags>>
    /\ UNCHANGED <<pkt, bit, pt, st, et, state, expect_key, r_key, r_chan,
                   r_command, r_power, rx_ret, pin, now, w_frame, w_idx,
                   w_gap, w_adj, w_lost, heard, nframes, accepted>>
    /\ UNCHANGED codecvars

(* what receive() does not change when called at an edge *)
LinkKeep ==
    UNCHANGED <<expect_key, w_frame, w_idx, w_tuple, w_kind, w_gap, w_snap,
                w_adj, w_lost, heard, nframes, codecvars>>

LinkPulseOn ==
    /\ PulseOn
    /\ pin' = 1
    /\ receive(1, now')
    /\ LinkKeep

LinkPulseOff ==
    /\ PulseOff
    /\ pin' = 0
    /\ receive(0, now')
    /\ LinkKeep

(* the receiver as begin() leaves it, with expect_key as the sketch set it *)
(* and a tuple stored by whatever ran before                               *)
LinkInit ==
    /\ TxBegin /\ IdealTiming
    /\ ms = U32(0) /\ buf = ZeroPkt
    /\ origin = "init" /\ dec = NoDec
    /\ pt = U32(0) /\ et = U32(0) /\ st = U32(0) /\ state = 0 /\ bit = 99
    /\ expect_key \in {0, KeyAt[1], KeyAt[2]}
    /\ \E h \in {<<0, 0, 0, 0>>, <<KeyAt[1], 1, COLLAR_ZAP, PowerAt[1]>>} :
          r_key = h[1] /\ r_chan = h[2] /\ r_command = h[3] /\ r_power = h[4]
    /\ WireIdle

LinkNext ==
    \/ LinkCall
    \/ CmdPoll
    \/ CmdCheck
    \/ CmdSend1
    \/ CmdSend2
    \/ LinkPulseOn
    \/ LinkPulseOff
    \/ SendGap

SpecLink == LinkInit /\ [][LinkNext]_vars

---------------------------------------------------------------------------
(* Properties of the transmission session (SpecTx).                        *)

(* channels a selector sends to in one round, in the order of lines        *)
(* 167-168                                                                 *)
Round(chan) ==
    (IF Bit(chan, 0) = 1 THEN <<1>> ELSE <<>>) \o
    (IF Bit(chan, 1) = 1 THEN <<2>> ELSE <<>>)
RECURSIVE Rounds(_, _)
Rounds(chan, n) == IF n <= 0 THEN <<>> ELSE Round(chan) \o Rounds(chan, n - 1)

Returned == pc = "idle" /\ args.call = "command"

(* C3: command() with a negative budget -N, a valid command, a channel     *)
(* selector in {1,2,3} and no cancellation sends exactly N frame rounds,   *)
(* channel 1 before channel 2, and returns 1.                              *)
C3_CountBudgetSendsN ==
    (/\ Returned
     /\ args.durn < 0
     /\ args.chan \in {1, 2, 3}
     /\ args.cmd \in {COLLAR_LED, COLLAR_BEEP, COLLAR_VIB, COLLAR_ZAP}
     /\ ret # 2)
    => (/\ ret = 1
        /\ sent = Rounds(args.chan, -args.durn)
        /\ npulse = 42 * Len(sent))

(* C5: interrupt() is polled only at the top of a loop iteration: before   *)
(* the first frame and between complete rounds, the line low; the poll     *)
(* that returns true ends command() with 2 and no pulse follows it, also   *)
(* when the budget is exhausted at that moment; a success return follows a *)
(* poll of the same iteration that returned false.                         *)
C5_CancelBetweenRounds ==
    /\ polled # NoPoll =>
          /\ polled.line = 0
          /\ polled.n = 42 * polled.s
          /\ \E k \in 0..polled.s : polled.s = k * Len(Round(c_chan))
    /\ polled.res =>
          /\ pc = "idle" /\ ret = 2
          /\ npulse = polled.n /\ Len(sent) = polled.s /\ line = 0
    /\ ret = 2 => polled.res
    /\ (ret = 1 /\ interrupt) => (polled # NoPoll /\ polled.s = Len(sent))

C5_Witness ==
    /\ Returned /\ ret = 2
    /\ polled.s = 2 /\ npulse = 84
    /\ args.durn >= 0 /\ el >= args.durn

(* C6: with a budget D >= 0 command() returns 1 only at a check that found *)
(* D or more milliseconds elapsed since entry; an iteration whose check    *)
(* found that starts no round (D = 0 emits nothing); an iteration whose    *)
(* check found less emits one full round.                                  *)
InRound == pc \in {"cmd_send1", "cmd_send2", "snd_on", "snd_off", "snd_gap"}

C6_DurationBudget ==
    (args.call = "command" /\ args.durn >= 0) =>
        /\ ret = 1 => (pc = "idle" /\ obs.el >= args.durn
                                   /\ Len(sent) = obs.s)
        /\ InRound => (obs.el >= 0 /\ obs.el < args.durn)
        /\ args.durn = 0 => npulse = 0
        /\ (pc = "cmd_poll" /\ obs # NoObs) =>
              /\ \/ Round(c_chan) = <<>>
                 \/ sent = Rounds(c_chan, Len(sent) \div Len(Round(c_chan)))
              /\ Len(sent) = obs.s + Len(Round(c_chan))
              /\ npulse = 42 * Len(sent)

C6_Witness ==
    /\ Returned /\ ret = 1
    /\ args.durn = MaxDurn /\ Len(sent) >= 2
    /\ cmd_t[1] = W16 - 1 /\ ms[1] = 0

(* C7: command() with a channel selector outside {1,2,3} or a command      *)
(* outside {LED,BEEP,VIBRATE,ZAP} returns 0 at once: the loop is not       *)
(* entered and no pulse is emitted.                                        *)
C7_InvalidParamsReturn0 ==
    (/\ args.call = "command"
     /\ \/ args.chan \notin {1, 2, 3}
        \/ args.cmd \notin {COLLAR_LED, COLLAR_BEEP, COLLAR_VIB, COLLAR_ZAP})
    => (pc = "idle" /\ ret = 0 /\ npulse = 0 /\ polled = NoPoll)

---------------------------------------------------------------------------
(* Properties of the codec (SpecApi).                                      *)

PacketCalled == args.call = "packet"

(* C1: for a key, a channel in {1,2}, a command in {LED,BEEP,VIBRATE,ZAP}  *)
(* and a power byte, packet() succeeds and the receiver's decoding of the  *)
(* five bytes, with expect_key 0 or the key, yields the same tuple.        *)
C1_RoundTrip ==
    /\ (PacketCalled /\ ValidTuple(args.chan, args.cmd)) =>
          (p_ret = 1 /\ origin = "packet")
    /\ (origin = "packet" /\ dec # NoDec /\ dec.ek \in {0, args.key}) =>
          dec.res = [ok |-> TRUE, k |-> args.key, c |-> args.chan,
                     cmd |-> args.cmd, p |-> args.pwr]

C1_Witness ==
    /\ origin = "packet" /\ dec.res.ok
    /\ dec.ek = 65535 /\ dec.res.k = 65535 /\ dec.res.p = 255
    /\ dec.res.c = 2 /\ dec.res.cmd = COLLAR_VIB

(* C2 as claimed: packet() with channel 1, key 0xABCD, command ZAP, power  *)
(* 0x64 produces the bytes 81 AB CD 64 70.                                 *)
ExampleCall ==
    /\ PacketCalled
    /\ args.key = 43981 /\ args.chan = 1 /\ args.cmd = COLLAR_ZAP
    /\ args.pwr = 100

C2_ExampleAsClaimed ==
    ExampleCall => buf = MkPkt(129, 171, 205, 100, 112)

(* C2 amended: packet() with channel 1, key 0xABCD, command ZAP, power     *)
(* 0x64 returns 1 and produces the bytes 81 AB CD 64 7E.                   *)
C2_ExampleVector ==
    ExampleCall => (p_ret = 1 /\ buf = MkPkt(129, 171, 205, 100, 126))

C2_Witness == ExampleCall /\ origin = "packet" /\ buf[4] = 126

(* C8: packet() with a channel outside {1,2} or a command outside          *)
(* {LED,BEEP,VIBRATE,ZAP} returns 0 and leaves the buffer, whatever it     *)
(* held, with the lead-in bit of byte 0 clear; send() of that buffer emits *)
(* no pulse and leaves the line as it was.                                 *)
C8_RejectLeavesSentinel ==
    /\ (PacketCalled /\ ~ValidTuple(args.chan, args.cmd)) =>
          (p_ret = 0 /\ origin = "rejected")
    /\ origin = "rejected" =>
          (Bit(buf[0], 7) = 0 /\ pc = "idle" /\ npulse = 0 /\ line = 0)

C8_Witness ==
    /\ origin = "rejected" /\ sent = <<0>>
    /\ buf[1] = 171 /\ buf[4] = 126

---------------------------------------------------------------------------
(* Properties of send() and sendpulse() (SpecSend).                        *)

SendPcs == {"snd_on", "snd_off", "snd_gap"}
(* bit i of frame p, counted from byte 0 bit 7 down to byte 4 bit 0 *)
FrameBit(p, i) == (p[i \div 8] \div (2 ^ (7 - (i % 8)))) % 2
(* the on-times a frame is to be sent as: start, 40 bits, extra zero *)
ExpectedWave(p) ==
    [j \in 1..42 |-> IF j = 1 THEN 1500
                     ELSE IF j <= 41 /\ FrameBit(p, j - 2) = 1 THEN 750
                     ELSE 250]

(* C12: send() of a valid frame emits 42 on-pulses: the start pulse, the   *)
(* 40 frame bits from byte 0 bit 7 down to byte 4 bit 0, 750 us for a 1    *)
(* and 250 us for a 0, then one extra 250 us pulse; the line is high only  *)
(* inside a pulse; send() returns 9 ms after the last pulse with the line  *)
(* low.                                                                    *)
C12_WireOrder ==
    /\ line = 1 <=> pc = "snd_off"
    /\ pc \in SendPcs =>
          /\ Len(wave) = s_bit + 1 /\ npulse = Len(wave) + line
          /\ wave = SubSeq(ExpectedWave(buf), 1, Len(wave))
    /\ (pc \notin SendPcs /\ wave # <<>>) =>
          /\ wave = ExpectedWave(buf)
          /\ npulse = 42
          /\ Sub32(now, pulse.fall) = U32(9000)

C12_Witness ==
    /\ pc = "idle" /\ Len(wave) = 42 /\ ncalls = 2
    /\ buf[1] = 171 /\ lags < MaxLags

(* C13: during send() the deadline clock is the clock value read at the    *)
(* start plus the nominal on+off durations of the symbols sent so far,     *)
(* 2250 us for the start symbol and 1000 us for every other, whatever      *)
(* delays were injected; after the last pulse it is the start value plus   *)
(* 2250 + 41 * 1000.                                                       *)
C13_DriftFreeDeadlines ==
    /\ pc \in SendPcs =>
          clk = Add32(clk0, U32(IF Len(wave) = 0 THEN 0
                                ELSE 2250 + (Len(wave) - 1) * 1000))
    /\ pc = "snd_gap" => clk = Add32(clk0, U32(2250 + 41 * 1000))

C13_Witness ==
    /\ pc = "snd_gap" /\ lags < MaxLags
    /\ ToLong(Sub32(now, clk)) > 0

(* C14: the wait sendpulse() makes before it raises the line is the        *)
(* deadline minus the clock when the deadline is in the future, and zero   *)
(* when the clock has reached or passed the deadline.                      *)
C14_PrePulseWait ==
    pulse # NoPulse =>
        pulse.wait = (IF ToLong(Sub32(pulse.clk, pulse.at)) > 0
                      THEN Sub32(pulse.clk, pulse.at) ELSE U32(0))

---------------------------------------------------------------------------
(* Properties of the receiver's validation (SpecDecode).                   *)

(* x with its 8 bits in the opposite order *)
Rev8(x) ==
    LET r(i) == Bit(x, i) * 2 ^ (7 - i)
    IN  r(0) + r(1) + r(2) + r(3) + r(4) + r(5) + r(6) + r(7)
(* the (byte 0, byte 4) pairs packet() produces *)
PacketPairs ==
    {<<packet(ZeroPkt, 0, c, m, 0).pkt[0], packet(ZeroPkt, 0, c, m, 0).pkt[4]>> :
        c \in {1, 2}, m \in COLLAR_LED..COLLAR_ZAP}

(* C18: a buffer the validation accepts is byte for byte what packet()     *)
(* makes of the tuple the validation returns; the (byte 0, byte 4) pairs   *)
(* accepted are exactly the 8 pairs packet() produces, and in each byte 4  *)
(* is byte 0 complemented and bit-reversed.                                *)
C18_NoFalseAccepts ==
    dec # NoDec =>
        /\ dec.res.ok =>
              /\ packet(ZeroPkt, dec.res.k, dec.res.c, dec.res.cmd,
                        dec.res.p) = [ret |-> 1, pkt |-> buf]
              /\ buf[4] = Rev8(255 - buf[0])
        /\ dec.res.ok <=>
              /\ <<buf[0], buf[4]>> \in PacketPairs
              /\ dec.ek = 0 \/ dec.ek = buf[1] * 256 + buf[2]
        /\ Cardinality(PacketPairs) = 8

C18_Witness ==
    /\ dec # NoDec /\ dec.res.ok /\ dec.ek # 0
    /\ origin = "init" /\ dec.res.c = 2 /\ dec.res.cmd = COLLAR_VIB

---------------------------------------------------------------------------
(* Properties of the receiver (SpecDebounce, SpecRx).                      *)

(* the step in which receive() takes the 40th bit of a frame and accepts *)
AcceptStep == accepted' = accepted + 1

(* C4: when a valid frame is accepted after an earlier accepted one,       *)
(* receive() returns 2 if the gap from the earlier frame's end to this     *)
(* frame's start marker, as the 32-bit microsecond clock gives it, is      *)
(* under 120000 and the decoded tuple equals the stored one, and returns 1 *)
(* in every other case.                                                    *)
C4_Debounce ==
    [][(AcceptStep /\ accepted >= 1) =>
          rx_ret' = (IF /\ LtU32(Sub32(st, et), 120000)
                        /\ w_tuple = Stored
                     THEN 2 ELSE 1)]_vars

(* the frame on the wire has been received in full *)
FrameDone == w_kind # "none" /\ w_idx >= 41 /\ bit = 40
(* a call of receive() has been made since the frame began *)
FrameBegun == w_kind # "none" /\ (w_idx >= 1 \/ pin = 1)

(* C9: a frame made by packet() from a valid tuple of which one bit of     *)
(* byte 4 was flipped is never accepted: every call of receive() during    *)
(* the frame returns 0, and the stored command and the time of the last    *)
(* accepted frame stay as they were when the frame began.                  *)
C9_Byte4FlipRejected ==
    (w_kind = "flip" /\ FrameBegun) =>
        /\ rx_ret = 0
        /\ Stored = w_snap.stored
        /\ et = w_snap.et
        /\ accepted = w_snap.accepted

C9_Witness ==
    /\ w_kind = "flip" /\ FrameDone /\ w_idx = 42
    /\ accepted >= 1 /\ r_command # COLLAR_NONE
    /\ expect_key = 0

(* C10: with expect_key nonzero a frame whose key differs is never         *)
(* accepted, and the stored tuple and the time of the last accepted frame  *)
(* stay as they were; with expect_key zero a frame made by packet() from a *)
(* valid tuple is accepted whatever its key.                               *)
C10_KeyFilter ==
    /\ (expect_key # 0 /\ FrameBegun /\ w_tuple[1] # expect_key) =>
          /\ rx_ret = 0
          /\ Stored = w_snap.stored
          /\ et = w_snap.et
          /\ accepted = w_snap.accepted
    /\ (expect_key = 0 /\ FrameDone /\ w_kind = "valid") =>
          accepted = w_snap.accepted + 1

C10_Witness ==
    /\ expect_key # 0 /\ w_kind = "valid" /\ w_tuple[1] # expect_key
    /\ FrameDone /\ w_idx = 42
    /\ accepted >= 1 /\ r_key = expect_key

---------------------------------------------------------------------------
(* Properties of the receiver under timing faults and noise (SpecGate).    *)

(* the 40th data pulse of the frame on the wire has just ended *)
At40thBit == w_kind # "none" /\ w_lost = 0 /\ w_idx = 41 /\ pin = 0
(* falling edge of the 40th bit minus the start-marker time *)
FrameDuration == ToLong(Sub32(now, st))

(* C11: when the 40th bit of a valid frame is appended the frame is        *)
(* accepted if and only if its duration, falling edge of the 40th bit      *)
(* minus start-marker time, is within 37000..42000 us; outside it          *)
(* receive() returns 0 and the stored command and end time are unchanged,  *)
(* so for 36 ms and 43 ms, while 40 ms is accepted.                        *)
C11_DurationGate ==
    (At40thBit /\ w_kind = "valid") =>
        /\ bit = 40
        /\ (37000 <= FrameDuration /\ FrameDuration <= 42000)
             <=> accepted = w_snap.accepted + 1
        /\ (FrameDuration < 37000 \/ FrameDuration > 42000) =>
              /\ rx_ret = 0
              /\ Stored = w_snap.stored /\ et = w_snap.et
        /\ FrameDuration \in {36000, 43000} => accepted = w_snap.accepted
        /\ FrameDuration = 40000 => Stored = w_tuple

C11_Witness ==
    /\ At40thBit /\ FrameDuration = 43000
    /\ accepted = 1 /\ r_command # COLLAR_NONE /\ Stored # w_tuple

---------------------------------------------------------------------------
(* Properties of the receiver on a noisy line (SpecNoise).                 *)

(* the step is a call of receive(): every action that is not one puts a    *)
(* new frame on the wire                                                   *)
ReceiveCalled == nframes' = nframes

(* C15: a call of receive() that returns 0 changes neither the stored      *)
(* (key, channel, command, power) nor the end time of the previous frame;  *)
(* a call that returns 2 changes the end time only; only a call that       *)
(* returns 1 overwrites the stored tuple.                                  *)
C15_StoredState ==
    [][ReceiveCalled =>
         /\ rx_ret' = 0 => (Stored' = Stored /\ et' = et)
         /\ rx_ret' = 2 => (Stored' = Stored /\ et' = now')
         /\ rx_ret' \in {0, 1, 2}
         /\ Stored' # Stored => rx_ret' = 1]_vars

C15_Witness ==
    /\ rx_ret = 2 /\ accepted = 2
    /\ et = now /\ et # w_snap.et /\ Stored = w_snap.stored

(* the buffer holding the first n of the bits h, MSB-first *)
HeardBit(h, n, j) == IF j < n THEN h[j + 1] ELSE 0
Pack(h, n) ==
    [i \in 0..4 |->
        HeardBit(h, n, 8 * i) * 128 + HeardBit(h, n, 8 * i + 1) * 64
        + HeardBit(h, n, 8 * i + 2) * 32 + HeardBit(h, n, 8 * i + 3) * 16
        + HeardBit(h, n, 8 * i + 4) * 8 + HeardBit(h, n, 8 * i + 5) * 4
        + HeardBit(h, n, 8 * i + 6) * 2 + HeardBit(h, n, 8 * i + 7)]
Least(a, b) == IF a <= b THEN a ELSE b

(* C16: a start marker received in any decoder state, idle, mid-frame or   *)
(* after a completed frame, discards the accumulated bits and restarts the *)
(* frame; the buffer holds exactly the bit values classified since the     *)
(* most recent start marker, in arrival order MSB-first, in particular     *)
(* when the bit counter reaches 40, whatever came before the marker and    *)
(* whatever noise pulses came in between.                                  *)
C16_Resync ==
    /\ (w_kind # "none" /\ w_idx = 1) =>
          (bit = 0 /\ pkt = ZeroPkt /\ heard = <<>>)
    /\ bit # 99 =>
          /\ bit = Least(Len(heard), 40)
          /\ pkt = Pack(heard, bit)
    /\ (bit = 40 /\ w_kind # "none" /\ w_lost = 0 /\ w_idx >= 41) =>
          pkt = w_frame

C16_Witness ==
    /\ w_snap # <<>> /\ w_snap.bit = 19
    /\ w_idx = 41 /\ bit = 40 /\ pkt = w_frame
    /\ rx_ret = 1 /\ Stored = w_tuple

(* C17: after begin() and any calls of receive() the bit counter is 99 or  *)
(* in 0..40; the buffer is written only while the counter is below 40;     *)
(* with the counter at 40 every further bit pulse is ignored with result 0 *)
(* until a start marker arrives; receive() returns non-zero only on the    *)
(* edge that takes the counter from 39 to 40, so at most once per start    *)
(* marker.                                                                 *)
C17_BitCounter ==
    /\ [](bit = 99 \/ bit \in 0..40)
    /\ [][ReceiveCalled =>
            /\ rx_ret' # 0 => (bit = 39 /\ bit' = 40)
            /\ bit' # bit => (bit' = 0 \/ (bit < 40 /\ bit' = bit + 1))
            /\ pkt' # pkt => (bit' = 0 \/ (bit < 40 /\ bit' = bit + 1))
            /\ (bit = 40 /\ bit' # 0) =>
                  (bit' = 40 /\ rx_ret' = 0 /\ pkt' = pkt
                   /\ Stored' = Stored /\ et' = et)]_vars

(* the extra pulse of an accepted frame has come and gone *)
C17_Witness ==
    /\ w_kind = "valid" /\ w_idx = 42 /\ pin = 0
    /\ bit = 40 /\ rx_ret = 0 /\ pkt = w_frame
    /\ accepted = w_snap.accepted + 1 /\ et # now

---------------------------------------------------------------------------
(* Properties of the receiver when a pulse is lost (SpecLoss).             *)

(* C20: when exactly one of the 40 data pulses of a correctly timed valid  *)
(* frame is classified as noise, the extra 41st pulse becomes the 40th bit *)
(* 41 ms after the start marker, and the receiver either rejects the frame *)
(* or decodes exactly the tuple that was sent: it never reports another    *)
(* key, channel, command or power.                                         *)
C20_LostPulse ==
    (w_lost # 0 /\ FrameBegun) =>
        /\ accepted # w_snap.accepted =>
              (Stored = w_tuple /\ accepted = w_snap.accepted + 1)
        /\ accepted = w_snap.accepted =>
              (Stored = w_snap.stored /\ et = w_snap.et)
        /\ w_idx = 41 => bit < 40
        /\ (w_idx = 42 /\ pin = 0) => (bit = 40 /\ FrameDuration = 41000)

C20_Witness ==
    /\ w_lost = 20 /\ w_idx = 42 /\ pin = 0
    /\ bit = 40 /\ FrameDuration = 41000
    /\ accepted = w_snap.accepted /\ accepted = 1
    /\ Stored = w_snap.stored /\ Stored # w_tuple

---------------------------------------------------------------------------
(* Properties of transmitter and receiver joined (SpecLink).               *)

(* command() sends one channel's frames of a valid command to a receiver   *)
(* that holds another tuple and expects any key, or the transmitter's      *)
LinkCase ==
    /\ w_kind = "link"
    /\ ValidTuple(c_chan, c_cmd)
    /\ w_snap.stored # w_tuple
    /\ expect_key \in {0, key}

(* C19: when the edges command() makes for one channel and a valid         *)
(* command, every deadline met, are fed to a receiver whose stored tuple   *)
(* differs from the sent one and whose expect_key is 0 or the transmitter  *)
(* key, receive() returns 1 at the end of the first frame with the sent    *)
(* tuple stored, 2 at the end of every later frame, 0 at every other edge, *)
(* and the extra 41st pulse of each frame is ignored.                      *)
C19_SessionDecoding ==
    [][(LinkCase /\ pc \in {"snd_on", "snd_off"}) =>
         /\ (pc = "snd_off" /\ s_bit = 39) =>
               /\ rx_ret' = (IF Len(sent) = 1 THEN 1 ELSE 2)
               /\ Stored' = w_tuple /\ bit' = 40
               /\ FrameDuration' = 40000 /\ et' = now'
         /\ (pc = "snd_on" \/ s_bit # 39) =>
               (rx_ret' = 0 /\ Stored' = Stored /\ et' = et)
         /\ s_bit = 40 =>
               (bit' = 40 /\ pkt' = pkt /\ pkt = s_pkt)
         /\ pc = "snd_off" => pulse'.fall = Add32(pulse'.rise,
                                                  U32(pulse'.on - 2))]_vars

C19_Witness ==
    /\ LinkCase /\ Len(sent) = 2 /\ pc = "snd_on" /\ s_bit = 40
    /\ rx_ret = 2 /\ Stored = w_tuple /\ accepted = 2
    /\ w_snap.stored # <<0, 0, 0, 0>> /\ expect_key = key

===========================================================================
